---- MODULE Spec2Model ----
(***************************************************************************)
(* A model of the graph algorithms of rustrithm: Dinic's maximum flow      *)
(* (graph/dinic.rs), minimum cost flow (graph/flow.rs), Tarjan style       *)
(* connectivity (graph/connectivity.rs), disjoint sets                      *)
(* (graph/disjoint_set.rs), Dijkstra (graph/mod.rs) and the lexicographic   *)
(* topological sort (graph/topo.rs).                                        *)
(*                                                                         *)
(* Each structure is a group of variables; Init is the state after every   *)
(* structure's new(); there is one specification per structure, whose      *)
(* next-state relation is the disjunction of that structure's methods.     *)
(* A Rust Vec is a function over 0..len-1, so indices are the code's.       *)
(***************************************************************************)
EXTENDS Integers, Sequences, FiniteSets, TLC

(***************************************************************************)
(* Vec helpers.                                                            *)
(***************************************************************************)
VLen(vec) == Cardinality(DOMAIN vec)

VPush(vec, x) ==
    [i \in 0..VLen(vec) |-> IF i < VLen(vec) THEN vec[i] ELSE x]

VecOf(n, x) == [i \in 0..(n - 1) |-> x]

EmptyVec == [i \in {} |-> 0]

Min2(a, b) == IF a < b THEN a ELSE b

RECURSIVE SumOver(_, _)
\* The sum of f[x] over the finite set S.
SumOver(S, f) ==
    IF S = {} THEN 0
    ELSE LET x == CHOOSE y \in S : TRUE IN f[x] + SumOver(S \ {x}, f)

(***************************************************************************)
(* graph/dinic.rs                                                          *)
(***************************************************************************)
VARIABLES dinic_edges, dinic_adj, dinic_distance, dinic_pc, dinic_s, dinic_t,
          dinic_max_flow

dinicVars == <<dinic_edges, dinic_adj, dinic_distance, dinic_pc, dinic_s,
               dinic_t, dinic_max_flow>>


\* The number of vertices the Dinic network is constructed with.
DinicNumV == 3
\* The largest number of add_edge / add_edge_rcap calls.
DinicMaxEdges == 3
\* The largest capacity of an edge.
DinicMaxCap == 2
\* The largest capacity, either way, given to add_edge_rcap (whose forward
\* capacity may be 0; every add_edge has a residual twin of capacity 0).
DinicMaxRcap == 1

\* Dinic::INF is i64::MAX; the model's integers are 32 bits wide, and the
\* code never does arithmetic on INF other than INF - flow_used.
DinicINF == 2147483647

DinicV == 0..(DinicNumV - 1)

Xor1(e) == IF e % 2 = 0 THEN e + 1 ELSE e - 1

\* Dinic::new
DinicNew ==
    /\ dinic_edges = EmptyVec
    /\ dinic_adj = [u \in DinicV |-> <<>>]
    /\ dinic_distance = EmptyVec
    /\ dinic_pc = "build"
    /\ dinic_s = 0
    /\ dinic_t = 0
    /\ dinic_max_flow = 0

\* Dinic::add_flow_edge: the edge and its residual twin, and the two
\* adjacency entries (the BTreeSet is ordered by edge_id, which only grows).
add_flow_edge(u, v, cap, rcap) ==
    LET edge_id == VLen(dinic_edges)
        adj1 == [dinic_adj EXCEPT ![u] = Append(@, [edge_id |-> edge_id, v |-> v])]
        adj2 == [adj1 EXCEPT ![v] = Append(@, [edge_id |-> edge_id + 1, v |-> u])]
    IN /\ dinic_adj' = adj2
       /\ dinic_edges' = VPush(VPush(dinic_edges,
                                     [u |-> u, v |-> v, cap |-> cap, flow |-> 0]),
                               [u |-> v, v |-> u, cap |-> rcap, flow |-> 0])

\* Dinic::add_edge
DinicAddEdge ==
    /\ dinic_pc = "build"
    /\ VLen(dinic_edges) < 2 * DinicMaxEdges
    /\ \E u \in DinicV, v \in DinicV, cap \in 1..DinicMaxCap :
          add_flow_edge(u, v, cap, 0)
    /\ UNCHANGED <<dinic_distance, dinic_pc, dinic_s, dinic_t, dinic_max_flow>>

\* Dinic::add_edge_rcap
DinicAddEdgeRcap ==
    /\ dinic_pc = "build"
    /\ VLen(dinic_edges) < 2 * DinicMaxEdges
    /\ \E u \in DinicV, v \in DinicV, cap \in 0..DinicMaxRcap, rcap \in 1..DinicMaxRcap :
          add_flow_edge(u, v, cap, rcap)
    /\ UNCHANGED <<dinic_distance, dinic_pc, dinic_s, dinic_t, dinic_max_flow>>

\* Dinic::augment_path
augment_path(edges, e, flow) ==
    [edges EXCEPT ![e].flow = @ + flow, ![Xor1(e)].flow = @ - flow]

RECURSIVE SearchAdj(_, _, _, _, _, _)
\* The for loop of dinic_search over adj_list(u), from position i.
SearchAdj(edges, adj, u, i, dist, q) ==
    IF i > Len(adj[u]) THEN [dist |-> dist, q |-> q]
    ELSE LET e == adj[u][i].edge_id
             v == adj[u][i].v
         IN IF dist[v] = DinicINF /\ edges[e].flow < edges[e].cap
            THEN SearchAdj(edges, adj, u, i + 1,
                           [dist EXCEPT ![v] = dist[u] + 1], Append(q, v))
            ELSE SearchAdj(edges, adj, u, i + 1, dist, q)

RECURSIVE SearchLoop(_, _, _, _)
\* The while loop of dinic_search over the queue.
SearchLoop(edges, adj, dist, q) ==
    IF q = <<>> THEN dist
    ELSE LET r == SearchAdj(edges, adj, Head(q), 1, dist, Tail(q))
         IN SearchLoop(edges, adj, r.dist, r.q)

\* Dinic::dinic_search: BFS distances from s in the residual graph.
dinic_search(edges, adj, s) ==
    SearchLoop(edges, adj, [VecOf(DinicNumV, DinicINF) EXCEPT ![s] = 0], <<s>>)

\* A dinic_augment that forgets the flow its caller can still take.
rem_cap_unbounded(edge, flow_input, flow_used) == edge.cap - edge.flow

\* min(remaining capacity, remaining flow) of dinic_augment.
rem_cap(edge, flow_input, flow_used) ==
    Min2(edge.cap - edge.flow, flow_input - flow_used)

RECURSIVE dinic_augment(_, _, _, _, _, _, _)
RECURSIVE AugmentLoop(_, _, _, _, _, _, _, _)
\* The while loop of dinic_augment at vertex u; it[u] is the position of the
\* peekable iterator of u's adjacency list.
AugmentLoop(adj, dist, u, t, flow_input, flow_used, edges, it) ==
    IF it[u] > Len(adj[u]) THEN [edges |-> edges, it |-> it, flow |-> flow_used]
    ELSE LET e == adj[u][it[u]].edge_id
             v == adj[u][it[u]].v
             rc == rem_cap(edges[e], flow_input, flow_used)
         IN IF rc > 0 /\ dist[v] = dist[u] + 1
            THEN LET r == dinic_augment(adj, dist, v, t, rc, edges, it)
                     edges2 == augment_path(r.edges, e, r.flow)
                     used2 == flow_used + r.flow
                 IN IF used2 = flow_input
                    THEN [edges |-> edges2, it |-> r.it, flow |-> used2]
                    ELSE AugmentLoop(adj, dist, u, t, flow_input, used2, edges2,
                                     [r.it EXCEPT ![u] = @ + 1])
            ELSE AugmentLoop(adj, dist, u, t, flow_input, flow_used, edges,
                             [it EXCEPT ![u] = @ + 1])

\* Dinic::dinic_augment
dinic_augment(adj, dist, u, t, flow_input, edges, it) ==
    IF u = t THEN [edges |-> edges, it |-> it, flow |-> flow_input]
    ELSE AugmentLoop(adj, dist, u, t, flow_input, 0, edges, it)

RECURSIVE DinicLoop(_, _, _, _, _)
\* The loop of Dinic::dinic: search, stop when t is unreachable, else push a
\* blocking flow.
DinicLoop(adj, s, t, edges, max_flow) ==
    LET dist == dinic_search(edges, adj, s)
    IN IF dist[t] = DinicINF
       THEN [edges |-> edges, distance |-> dist, max_flow |-> max_flow]
       ELSE LET r == dinic_augment(adj, dist, s, t, DinicINF, edges,
                                   [u \in DinicV |-> 1])
            IN DinicLoop(adj, s, t, r.edges, max_flow + r.flow)

\* Dinic::dinic(s, t), s != t, on a network whose flows are all 0.
DinicRun ==
    /\ dinic_pc = "build"
    /\ \E s \in DinicV, t \in DinicV :
          /\ s # t
          /\ LET r == DinicLoop(dinic_adj, s, t, dinic_edges, 0)
             IN /\ dinic_edges' = r.edges
                /\ dinic_distance' = r.distance
                /\ dinic_max_flow' = r.max_flow
          /\ dinic_s' = s
          /\ dinic_t' = t
    /\ dinic_pc' = "done"
    /\ UNCHANGED dinic_adj

\* A min_cut that steps over the residual edges, as edge_iter does.
min_cut_step_by_2 ==
    {e \in DOMAIN dinic_edges :
        /\ e % 2 = 0
        /\ dinic_distance[dinic_edges[e].u] < DinicINF
        /\ dinic_distance[dinic_edges[e].v] = DinicINF}

\* Dinic::min_cut
min_cut ==
    {e \in DOMAIN dinic_edges :
        /\ dinic_distance[dinic_edges[e].u] < DinicINF
        /\ dinic_distance[dinic_edges[e].v] = DinicINF}

(***************************************************************************)
(* graph/flow.rs                                                           *)
(***************************************************************************)
VARIABLES flow_edges, flow_adj, flow_distance, flow_pc, flow_s, flow_t,
          flow_limit_arg, flow_ret

flowVars == <<flow_edges, flow_adj, flow_distance, flow_pc, flow_s, flow_t,
              flow_limit_arg, flow_ret>>

\* The number of vertices of the FlowGraph.
FlowNumV == 3
\* The largest number of add_edge calls.
FlowMaxEdges == 3
\* The largest capacity of an edge.
FlowMaxCap == 2
\* The largest cost of an edge; the least is -1.
FlowMaxCost == 1
\* The largest flow_limit given to mcf_flow_limit; the least is -1.
FlowMaxLimit == 1

\* FlowGraph::INF is i64::MAX, which is also the flow_limit of mcf.
FlowINF == 2147483647

FlowV == 0..(FlowNumV - 1)

\* FlowGraph::new
FlowNew ==
    /\ flow_edges = EmptyVec
    /\ flow_adj = [u \in FlowV |-> <<>>]
    /\ flow_distance = EmptyVec
    /\ flow_pc = "build"
    /\ flow_s = 0
    /\ flow_t = 0
    /\ flow_limit_arg = 0
    /\ flow_ret = <<0, 0>>

\* Graph<FlowEdge>::add_flow_edge
graph_add_flow_edge(u, v, cap, rcap, cost) ==
    LET edge_id == VLen(flow_edges)
        adj1 == [flow_adj EXCEPT ![u] = Append(@, [edge_id |-> edge_id, v |-> v])]
        adj2 == [adj1 EXCEPT ![v] = Append(@, [edge_id |-> edge_id + 1, v |-> u])]
    IN /\ flow_adj' = adj2
       /\ flow_edges' =
            VPush(VPush(flow_edges,
                        [u |-> u, v |-> v, cap |-> cap, cost |-> cost, flow |-> 0]),
                  [u |-> v, v |-> u, cap |-> rcap, cost |-> -cost, flow |-> 0])

\* FlowGraph::add_edge, which is add_edge_rcap with rcap == 0.
FlowAddEdge ==
    /\ flow_pc = "build"
    /\ VLen(flow_edges) < 2 * FlowMaxEdges
    /\ \E u \in FlowV, v \in FlowV, cap \in 1..FlowMaxCap,
          cost \in (0 - 1)..FlowMaxCost :
          u # v /\ graph_add_flow_edge(u, v, cap, 0, cost)
    /\ UNCHANGED <<flow_distance, flow_pc, flow_s, flow_t, flow_limit_arg, flow_ret>>

\* FlowGraph::augment_path
flow_augment_path(edges, e, flow) ==
    [edges EXCEPT ![e].flow = @ + flow, ![Xor1(e)].flow = @ - flow]

RECURSIVE BellmanFordEdges(_, _, _)
\* One pass of the Bellman-Ford initialization over the edges from e on.
BellmanFordEdges(edges, pot, e) ==
    IF e \notin DOMAIN edges THEN pot
    ELSE LET edge == edges[e]
         IN BellmanFordEdges(edges,
                IF edge.cap > 0
                THEN [pot EXCEPT ![edge.v] = Min2(pot[edge.v], pot[edge.u] + edge.cost)]
                ELSE pot,
                e + 1)

RECURSIVE BellmanFord(_, _, _)
\* The passes of for _ in 1..num_v, from pass k on.
BellmanFord(edges, pot, k) ==
    IF k >= FlowNumV THEN pot
    ELSE BellmanFord(edges, BellmanFordEdges(edges, pot, 0), k + 1)

\* The vertex min_by_key picks in mcf_search: the first of the unvisited
\* reached vertices with the least distance[u] - pot[u], or -1 for None.
mcf_pick(vis, dist, pot) ==
    LET cand == {u \in FlowV : ~vis[u] /\ dist[u] < FlowINF}
    IN IF cand = {} THEN -1
       ELSE CHOOSE u \in cand :
              \A w \in cand :
                 \/ dist[u] - pot[u] < dist[w] - pot[w]
                 \/ dist[u] - pot[u] = dist[w] - pot[w] /\ u <= w

\* The test of mcf_search for relaxing edge over u -> v.
mcf_relaxes(dist, u, v, edge) ==
    dist[v] > dist[u] + edge.cost /\ edge.flow < edge.cap

RECURSIVE McfSearchAdj(_, _, _, _, _, _)
\* The for loop of mcf_search over adj_list(u), from position i.
McfSearchAdj(edges, adj, u, i, dist, par) ==
    IF i > Len(adj[u]) THEN [dist |-> dist, par |-> par]
    ELSE LET e == adj[u][i].edge_id
             v == adj[u][i].v
         IN IF mcf_relaxes(dist, u, v, edges[e])
            THEN McfSearchAdj(edges, adj, u, i + 1,
                              [dist EXCEPT ![v] = dist[u] + edges[e].cost],
                              [par EXCEPT ![v] = e])
            ELSE McfSearchAdj(edges, adj, u, i + 1, dist, par)

RECURSIVE McfSearchLoop(_, _, _, _, _, _)
\* The while loop of mcf_search; par[v] = -1 stands for None.
McfSearchLoop(edges, adj, vis, dist, par, pot) ==
    LET u == mcf_pick(vis, dist, pot)
    IN IF u = -1 THEN [dist |-> dist, par |-> par, pot |-> pot]
       ELSE LET r == McfSearchAdj(edges, adj, u, 1, dist, par)
            IN McfSearchLoop(edges, adj, [vis EXCEPT ![u] = TRUE], r.dist, r.par,
                             [pot EXCEPT ![u] = dist[u]])

\* FlowGraph::mcf_search
mcf_search(edges, adj, s, pot) ==
    McfSearchLoop(edges, adj, VecOf(FlowNumV, FALSE),
                  [VecOf(FlowNumV, FlowINF) EXCEPT ![s] = 0],
                  VecOf(FlowNumV, -1), pot)

RECURSIVE McfBottleneckNoLimit(_, _, _, _, _)
\* A bottleneck that forgets .min(flow_limit).
McfBottleneckNoLimit(edges, par, u, df, limit) ==
    IF par[u] = -1 THEN df
    ELSE LET edge == edges[par[u]]
         IN McfBottleneckNoLimit(edges, par, edge.u,
                                 Min2(df, edge.cap - edge.flow), limit)

RECURSIVE McfBottleneck(_, _, _, _, _)
\* The first loop of mcf_augment: the least remaining capacity on the path.
McfBottleneck(edges, par, u, df, limit) ==
    IF par[u] = -1 THEN df
    ELSE LET edge == edges[par[u]]
         IN McfBottleneck(edges, par, edge.u,
                          Min2(Min2(df, edge.cap - edge.flow), limit), limit)

RECURSIVE McfPush(_, _, _, _, _)
\* The second loop of mcf_augment: push df along the path and add its cost.
McfPush(edges, par, u, df, dc) ==
    IF par[u] = -1 THEN [edges |-> edges, dc |-> dc]
    ELSE LET e == par[u]
             edges2 == flow_augment_path(edges, e, df)
         IN McfPush(edges2, par, edges2[e].u, df, dc + df * edges2[e].cost)

\* FlowGraph::mcf_augment
mcf_augment(edges, t, par, limit) ==
    LET df == McfBottleneck(edges, par, t, FlowINF, limit)
        r == McfPush(edges, par, t, df, 0)
    IN [edges |-> r.edges, dc |-> r.dc, df |-> df]

RECURSIVE McfLoop(_, _, _, _, _, _, _, _, _)
\* The loop of mcf_flow_limit.
McfLoop(adj, s, t, edges, dist, pot, limit, min_cost, max_flow) ==
    IF limit <= 0
    THEN [edges |-> edges, distance |-> dist, ret |-> <<min_cost, max_flow>>]
    ELSE LET sr == mcf_search(edges, adj, s, pot)
         IN IF sr.par[t] = -1
            THEN [edges |-> edges, distance |-> sr.dist,
                  ret |-> <<min_cost, max_flow>>]
            ELSE LET a == mcf_augment(edges, t, sr.par, limit)
                 IN McfLoop(adj, s, t, a.edges, sr.dist, sr.pot, limit - a.df,
                            min_cost + a.dc, max_flow + a.df)

\* FlowGraph::mcf_flow_limit
mcf_flow_limit(adj, edges, dist, s, t, limit) ==
    McfLoop(adj, s, t, edges, dist,
            BellmanFord(edges, VecOf(FlowNumV, 0), 1), limit, 0, 0)

RECURSIVE WalkCost(_, _)
\* WalkCost(edges, k)[u, v] is the least cost of a walk of 1..k usable edges
\* (flow < cap) from u to v, FlowINF if there is none.
WalkCost(edges, k) ==
    LET usable == {e \in DOMAIN edges : edges[e].flow < edges[e].cap}
        least(C) == IF C = {} THEN FlowINF ELSE CHOOSE c \in C : \A d \in C : c <= d
    IN IF k = 1
       THEN [u \in FlowV, v \in FlowV |->
               least({edges[e].cost : e \in {d \in usable :
                                               edges[d].u = u /\ edges[d].v = v}})]
       ELSE LET P == WalkCost(edges, k - 1)
            IN [u \in FlowV, v \in FlowV |->
                  least({P[u, v]} \cup
                        {P[u, edges[e].u] + edges[e].cost :
                           e \in {d \in usable :
                                    edges[d].v = v /\ P[u, edges[d].u] < FlowINF}})]

\* The precondition of mcf: no cycle of usable edges has a negative cost.
NoNegativeCycle(edges) ==
    LET W == WalkCost(edges, FlowNumV) IN \A v \in FlowV : W[v, v] >= 0

\* A call with s != t. The vertices are interchangeable up to the first-index
\* tie break of min_by_key, which only ever decides between vertices other
\* than s, so the calls enumerated are those with s < t.
FlowRun(s, t, limit) ==
    /\ s < t
    /\ LET r == mcf_flow_limit(flow_adj, flow_edges, flow_distance, s, t, limit)
       IN /\ flow_edges' = r.edges
          /\ flow_distance' = r.distance
          /\ flow_ret' = r.ret
    /\ flow_s' = s
    /\ flow_t' = t
    /\ flow_limit_arg' = limit
    /\ flow_pc' = "done"
    /\ UNCHANGED flow_adj

\* FlowGraph::mcf(s, t), on a network without negative-cost cycles.
FlowMcf ==
    /\ flow_pc = "build"
    /\ NoNegativeCycle(flow_edges)
    /\ \E s \in FlowV, t \in FlowV : FlowRun(s, t, FlowINF)

\* FlowGraph::mcf_flow_limit(s, t, flow_limit), on such a network.
FlowMcfFlowLimit ==
    /\ flow_pc = "build"
    /\ NoNegativeCycle(flow_edges)
    /\ \E s \in FlowV, t \in FlowV, limit \in (0 - 1)..FlowMaxLimit :
          FlowRun(s, t, limit)

(***************************************************************************)
(* graph/connectivity.rs                                                   *)
(***************************************************************************)
VARIABLES conn_num_v, conn_adj, conn_edges, conn_cc, conn_vcc, conn_num_cc,
          conn_num_vcc, conn_built, conn_rebuilt

connVars == <<conn_num_v, conn_adj, conn_edges, conn_cc, conn_vcc, conn_num_cc,
              conn_num_vcc, conn_built, conn_rebuilt>>

\* The number of vertices and the largest number of add_edge calls of the
\* directed graphs whose strongly connected components are computed.
SccNumV == 4
SccMaxEdges == 4
\* The number of variables and the largest number of clauses of the 2-CNF
\* formulas; the graph has two vertices per variable.
TwoSatNumVars == 2
TwoSatMaxClauses == 4
\* The number of vertices and the largest number of add_undirected_edge
\* calls of the undirected graphs.
BccNumV == 4
BccMaxEdges == 4

ConnV == 0..(conn_num_v - 1)

\* ConnectivityGraph::new(n); conn_built says that build has run since the
\* last edge was added, conn_rebuilt that the last build replaced the result
\* of an earlier one.
ConnNew(n) ==
    /\ conn_num_v = n
    /\ conn_adj = [u \in 0..(n - 1) |-> <<>>]
    /\ conn_edges = EmptyVec
    /\ conn_cc = EmptyVec
    /\ conn_vcc = EmptyVec
    /\ conn_num_cc = 0
    /\ conn_num_vcc = 0
    /\ conn_built = FALSE
    /\ conn_rebuilt = FALSE

\* ConnectivityGraph::add_edge, applied to the pair <<adj, edges>>.
conn_add_edge(g, u, v) ==
    LET eid == VLen(g.edges)
    IN [adj |-> [g.adj EXCEPT ![u] = Append(@, <<eid, v>>)],
        edges |-> VPush(g.edges, <<u, v>>)]

\* ConnectivityGraph::add_undirected_edge
conn_add_undirected_edge(g, u, v) ==
    LET eid == VLen(g.edges)
        adj1 == [g.adj EXCEPT ![u] = Append(@, <<eid, v>>)]
    IN [adj |-> [adj1 EXCEPT ![v] = Append(@, <<eid, u>>)],
        edges |-> VPush(g.edges, <<u, v>>)]

\* ConnectivityGraph::add_two_sat_clause
conn_add_two_sat_clause(g, u, v) ==
    conn_add_edge(conn_add_edge(g, Xor1(u), v), Xor1(v), u)

ConnGraph == [adj |-> conn_adj, edges |-> conn_edges]

ConnSetGraph(g) ==
    /\ conn_adj' = g.adj
    /\ conn_edges' = g.edges
    /\ conn_built' = FALSE
    /\ UNCHANGED <<conn_num_v, conn_cc, conn_vcc, conn_num_cc, conn_num_vcc,
                   conn_rebuilt>>

\* add_edge on a graph that was not built yet.
ConnAddEdge ==
    /\ VLen(conn_cc) = 0
    /\ VLen(conn_edges) < SccMaxEdges
    /\ \E u \in ConnV, v \in ConnV : ConnSetGraph(conn_add_edge(ConnGraph, u, v))

\* add_undirected_edge on a graph that was not built yet.
ConnAddUndirectedEdge ==
    /\ VLen(conn_cc) = 0
    /\ VLen(conn_edges) < BccMaxEdges
    /\ \E u \in ConnV, v \in ConnV :
          ConnSetGraph(conn_add_undirected_edge(ConnGraph, u, v))

\* add_two_sat_clause, before a build or after one.
ConnAddTwoSatClause ==
    /\ VLen(conn_edges) < 2 * TwoSatMaxClauses
    /\ \E u \in ConnV, v \in ConnV :
          ConnSetGraph(conn_add_two_sat_clause(ConnGraph, u, v))

\* ConnectivityData::new
ConnectivityData(num_v, num_e) ==
    [time |-> 0, vis |-> VecOf(num_v, 0), low |-> VecOf(num_v, 0),
     v_stack |-> <<>>, e_stack |-> <<>>, cc |-> VecOf(num_v, 0),
     vcc |-> VecOf(num_e, 0), num_cc |-> 0, num_vcc |-> 0]

\* ConnectivityData::visit
visit(data, u) ==
    [data EXCEPT !.time = @ + 1, !.vis[u] = data.time + 1,
                 !.low[u] = data.time + 1, !.v_stack = Append(@, u)]

\* ConnectivityData::lower
lower(data, u, val) ==
    IF data.low[u] > val THEN [data EXCEPT !.low[u] = val] ELSE data

RECURSIVE PopComponent(_, _)
\* while let Some(v) = v_stack.pop() { cc[v] = num_cc; if v == u { break } }
PopComponent(data, u) ==
    IF data.v_stack = <<>> THEN data
    ELSE LET n == Len(data.v_stack)
             v == data.v_stack[n]
             d2 == [data EXCEPT !.v_stack = SubSeq(@, 1, n - 1), !.cc[v] = data.num_cc]
         IN IF v = u THEN d2 ELSE PopComponent(d2, u)

\* The end of scc and of bcc: u is the root of a component.
CloseComponent(data, u) ==
    IF data.vis[u] = data.low[u]
    THEN PopComponent([data EXCEPT !.num_cc = @ + 1], u)
    ELSE data

\* A lowering that does not look whether v already has its component.
scc_lower_always(data, u, v) == lower(data, u, data.low[v])

\* The lowering of scc after the edge u -> v: only while v has no component.
scc_lower(data, u, v) ==
    IF data.cc[v] = 0 THEN lower(data, u, data.low[v]) ELSE data

RECURSIVE scc(_, _, _)
RECURSIVE SccAdj(_, _, _, _)
\* The for loop of scc over adj[u], from position i.
SccAdj(adj, data, u, i) ==
    IF i > Len(adj[u]) THEN data
    ELSE LET v == adj[u][i][2]
             d1 == IF data.vis[v] = 0 THEN scc(adj, data, v) ELSE data
         IN SccAdj(adj, scc_lower(d1, u, v), u, i + 1)

\* ConnectivityGraph::scc
scc(adj, data, u) == CloseComponent(SccAdj(adj, visit(data, u), u, 1), u)

RECURSIVE PopEdges(_, _)
\* while let Some(top_e) = e_stack.pop() { vcc[top_e] = num_vcc; if e == top_e { break } }
PopEdges(data, e) ==
    IF data.e_stack = <<>> THEN data
    ELSE LET n == Len(data.e_stack)
             top_e == data.e_stack[n]
             d2 == [data EXCEPT !.e_stack = SubSeq(@, 1, n - 1),
                                !.vcc[top_e] = data.num_vcc]
         IN IF e = top_e THEN d2 ELSE PopEdges(d2, e)

RECURSIVE bcc(_, _, _, _)
RECURSIVE BccAdj(_, _, _, _, _)
\* The for loop of bcc over adj[u], from position i.
BccAdj(adj, data, u, par, i) ==
    IF i > Len(adj[u]) THEN data
    ELSE LET e == adj[u][i][1]
             v == adj[u][i][2]
         IN IF data.vis[v] = 0
            THEN LET d1 == bcc(adj, [data EXCEPT !.e_stack = Append(@, e)], v, e)
                     d2 == lower(d1, u, d1.low[v])
                     d3 == IF d2.vis[u] <= d2.low[v]
                           THEN PopEdges([d2 EXCEPT !.num_vcc = @ + 1], e)
                           ELSE d2
                 IN BccAdj(adj, d3, u, par, i + 1)
            ELSE IF data.vis[v] < data.vis[u] /\ e # par
            THEN BccAdj(adj,
                        [lower(data, u, data.vis[v]) EXCEPT !.e_stack = Append(@, e)],
                        u, par, i + 1)
            ELSE IF v = u
            THEN BccAdj(adj,
                        [data EXCEPT !.num_vcc = @ + 1, !.vcc[e] = data.num_vcc + 1],
                        u, par, i + 1)
            ELSE BccAdj(adj, data, u, par, i + 1)

\* ConnectivityGraph::bcc
bcc(adj, data, u, par) == CloseComponent(BccAdj(adj, visit(data, u), u, par, 1), u)

RECURSIVE BuildFrom(_, _, _, _, _)
\* The loop of build over the vertices u..num_v-1.
BuildFrom(adj, num_e, data, is_directed, u) ==
    IF u \notin DOMAIN adj THEN data
    ELSE IF data.vis[u] > 0 THEN BuildFrom(adj, num_e, data, is_directed, u + 1)
    ELSE BuildFrom(adj, num_e,
                   IF is_directed THEN scc(adj, data, u)
                   ELSE bcc(adj, data, u, num_e + 1),
                   is_directed, u + 1)

\* ConnectivityGraph::build
ConnBuild(is_directed) ==
    /\ ~conn_built
    /\ LET data == BuildFrom(conn_adj, VLen(conn_edges),
                             ConnectivityData(conn_num_v, VLen(conn_edges)),
                             is_directed, 0)
       IN /\ conn_cc' = data.cc
          /\ conn_vcc' = data.vcc
          /\ conn_num_cc' = data.num_cc
          /\ conn_num_vcc' = data.num_vcc
    /\ conn_built' = TRUE
    /\ conn_rebuilt' = (VLen(conn_cc) > 0)
    /\ UNCHANGED <<conn_num_v, conn_adj, conn_edges>>

\* The Option<Vec<bool>> values: None, and Some(a) for an assignment a.
None == [some |-> FALSE, value |-> EmptyVec]
Some(a) == [some |-> TRUE, value |-> a]

\* A two_sat_assign with the comparison of the component ids turned round.
two_sat_assign_swapped ==
    IF \E i \in 0..((conn_num_v \div 2) - 1) : conn_cc[2 * i] = conn_cc[2 * i + 1]
    THEN None
    ELSE Some([i \in 0..((conn_num_v \div 2) - 1) |->
                 conn_cc[2 * i] > conn_cc[2 * i + 1]])

\* ConnectivityGraph::two_sat_assign
two_sat_assign ==
    IF \E i \in 0..((conn_num_v \div 2) - 1) : conn_cc[2 * i] = conn_cc[2 * i + 1]
    THEN None
    ELSE Some([i \in 0..((conn_num_v \div 2) - 1) |->
                 conn_cc[2 * i] < conn_cc[2 * i + 1]])

\* The key topological_sort sorts the vertices by.
topological_key(u) == conn_num_cc - conn_cc[u]

\* ConnectivityGraph::topological_sort: sort_unstable_by_key may leave
\* vertices of equal key in any order, so every order sorted by the key is a
\* possible result.
topological_sort ==
    {order \in [ConnV -> ConnV] :
        /\ \A i, j \in ConnV : i # j => order[i] # order[j]
        /\ \A i, j \in ConnV :
              i < j => topological_key(order[i]) <= topological_key(order[j])}

\* ConnectivityGraph::is_cut_vertex
is_cut_vertex(u) ==
    IF Len(conn_adj[u]) > 0
    THEN \E i \in 2..Len(conn_adj[u]) :
            conn_vcc[conn_adj[u][1][1]] # conn_vcc[conn_adj[u][i][1]]
    ELSE FALSE

\* ConnectivityGraph::is_cut_edge
is_cut_edge(e) ==
    IF e \in DOMAIN conn_edges
    THEN conn_cc[conn_edges[e][1]] # conn_cc[conn_edges[e][2]]
    ELSE FALSE

(***************************************************************************)
(* graph/disjoint_set.rs                                                   *)
(***************************************************************************)
VARIABLES dsu_parent, dsu_size_nodes, dsu_num_sets,
          \* the last call, [op, u, v, ret], and two records of the history:
          \* the sets as they were before that call, and the number of merge
          \* calls that have returned true
          dsu_call, dsu_before, dsu_merged

dsuVars == <<dsu_parent, dsu_size_nodes, dsu_num_sets, dsu_call, dsu_before,
             dsu_merged>>

\* The size given to DisjointSets::new.
DsuSize == 4

DsuV == 0..(DsuSize - 1)

RECURSIVE find(_, _, _)
\* DisjointSets::find: the representative of u, and parent after the path
\* compression.
find(parent, size_nodes, u) ==
    IF size_nodes[u] > 0 THEN [parent |-> parent, ret |-> u]
    ELSE LET r == find(parent, size_nodes, parent[u])
         IN [parent |-> [r.parent EXCEPT ![u] = r.ret], ret |-> r.ret]

\* A merge that leaves the size of the absorbed representative as it was.
merge_keeps_size(parent, size_nodes, num_sets, u, v) ==
    LET fu == find(parent, size_nodes, u)
        fv == find(fu.parent, size_nodes, v)
        swap == size_nodes[fu.ret] < size_nodes[fv.ret]
        pu == IF swap THEN fv.ret ELSE fu.ret
        pv == IF swap THEN fu.ret ELSE fv.ret
    IN IF fu.ret = fv.ret
       THEN [parent |-> fv.parent, size_nodes |-> size_nodes,
             num_sets |-> num_sets, ret |-> FALSE]
       ELSE [parent |-> [fv.parent EXCEPT ![pv] = pu],
             size_nodes |-> [size_nodes EXCEPT ![pu] = @ + size_nodes[pv]],
             num_sets |-> num_sets - 1, ret |-> TRUE]

\* A merge that counts one element for the absorbed set.
merge_adds_one(parent, size_nodes, num_sets, u, v) ==
    LET fu == find(parent, size_nodes, u)
        fv == find(fu.parent, size_nodes, v)
        swap == size_nodes[fu.ret] < size_nodes[fv.ret]
        pu == IF swap THEN fv.ret ELSE fu.ret
        pv == IF swap THEN fu.ret ELSE fv.ret
    IN IF fu.ret = fv.ret
       THEN [parent |-> fv.parent, size_nodes |-> size_nodes,
             num_sets |-> num_sets, ret |-> FALSE]
       ELSE [parent |-> [fv.parent EXCEPT ![pv] = pu],
             size_nodes |-> [size_nodes EXCEPT ![pu] = @ + 1, ![pv] = 0],
             num_sets |-> num_sets - 1, ret |-> TRUE]

\* DisjointSets::merge
merge(parent, size_nodes, num_sets, u, v) ==
    LET fu == find(parent, size_nodes, u)
        fv == find(fu.parent, size_nodes, v)
        swap == size_nodes[fu.ret] < size_nodes[fv.ret]
        pu == IF swap THEN fv.ret ELSE fu.ret
        pv == IF swap THEN fu.ret ELSE fv.ret
    IN IF fu.ret = fv.ret
       THEN [parent |-> fv.parent, size_nodes |-> size_nodes,
             num_sets |-> num_sets, ret |-> FALSE]
       ELSE [parent |-> [fv.parent EXCEPT ![pv] = pu],
             size_nodes |-> [size_nodes EXCEPT ![pu] = @ + size_nodes[pv], ![pv] = 0],
             num_sets |-> num_sets - 1, ret |-> TRUE]

\* DisjointSets::count
count(parent, size_nodes, v) ==
    LET f == find(parent, size_nodes, v)
    IN [parent |-> f.parent, ret |-> size_nodes[f.ret]]

\* DisjointSets::count_sets
count_sets == dsu_num_sets

\* DisjointSets::same
same(parent, size_nodes, u, v) ==
    LET fu == find(parent, size_nodes, u)
        fv == find(fu.parent, size_nodes, v)
    IN [parent |-> fv.parent, ret |-> fu.ret = fv.ret]

\* The sets of the structure: v and w are in one set when same(v, w).
DsuSets(parent, size_nodes) ==
    {{w \in DsuV : same(parent, size_nodes, v, w).ret} : v \in DsuV}

\* DisjointSets::new
DsuNew ==
    /\ dsu_parent = [i \in DsuV |-> i]
    /\ dsu_size_nodes = VecOf(DsuSize, 1)
    /\ dsu_num_sets = DsuSize
    /\ dsu_call = [op |-> "new", u |-> 0, v |-> 0, ret |-> 0]
    /\ dsu_before = {}
    /\ dsu_merged = 0

DsuCalled(op, u, v, ret) ==
    /\ dsu_call' = [op |-> op, u |-> u, v |-> v, ret |-> ret]
    /\ dsu_before' = DsuSets(dsu_parent, dsu_size_nodes)

DsuMerge ==
    \E u \in DsuV, v \in DsuV :
        LET r == merge(dsu_parent, dsu_size_nodes, dsu_num_sets, u, v)
        IN /\ dsu_parent' = r.parent
           /\ dsu_size_nodes' = r.size_nodes
           /\ dsu_num_sets' = r.num_sets
           /\ dsu_merged' = IF r.ret THEN dsu_merged + 1 ELSE dsu_merged
           /\ DsuCalled("merge", u, v, r.ret)

DsuFind ==
    \E u \in DsuV :
        LET r == find(dsu_parent, dsu_size_nodes, u)
        IN /\ dsu_parent' = r.parent
           /\ DsuCalled("find", u, u, r.ret)
           /\ UNCHANGED <<dsu_size_nodes, dsu_num_sets, dsu_merged>>

DsuCount ==
    \E v \in DsuV :
        LET r == count(dsu_parent, dsu_size_nodes, v)
        IN /\ dsu_parent' = r.parent
           /\ DsuCalled("count", v, v, r.ret)
           /\ UNCHANGED <<dsu_size_nodes, dsu_num_sets, dsu_merged>>

DsuSame ==
    \E u \in DsuV, v \in DsuV :
        LET r == same(dsu_parent, dsu_size_nodes, u, v)
        IN /\ dsu_parent' = r.parent
           /\ DsuCalled("same", u, v, r.ret)
           /\ UNCHANGED <<dsu_size_nodes, dsu_num_sets, dsu_merged>>

(***************************************************************************)
(* graph/mod.rs: Graph<WeightedEdge>                                       *)
(***************************************************************************)
VARIABLES wg_edges, wg_adj, wg_pc, wg_src, wg_dest, wg_ret

wgVars == <<wg_edges, wg_adj, wg_pc, wg_src, wg_dest, wg_ret>>

\* The number of vertices of the weighted graph.
WgNumV == 3
\* The largest number of edges added.
WgMaxEdges == 3
\* The largest weight of an edge; the least is 0.
WgMaxWeight == 2

\* usize::MAX, the distance of a vertex not reached; a model integer has 32
\* bits, and the code adds weights to the distances of reached vertices only.
UsizeMax == 2147483647

WgV == 0..(WgNumV - 1)

\* Graph::new
WgNew ==
    /\ wg_edges = EmptyVec
    /\ wg_adj = [u \in WgV |-> <<>>]
    /\ wg_pc = "build"
    /\ wg_src = 0
    /\ wg_dest = 0
    /\ wg_ret = [distance |-> EmptyVec, prev |-> EmptyVec]

\* BTreeSet<AdjTo>::insert: AdjTo is ordered by edge_id alone, so an entry
\* with an edge_id already there is not inserted; edge ids only grow.
adj_insert(list, edge_id, v) ==
    IF \E i \in 1..Len(list) : list[i].edge_id = edge_id THEN list
    ELSE Append(list, [edge_id |-> edge_id, v |-> v])

\* Graph::add_adj
add_adj(adj, edge_id, u, v) == [adj EXCEPT ![u] = adj_insert(@, edge_id, v)]

\* Graph::add_undirected_adj
add_undirected_adj(adj, edge_id, u, v) ==
    LET adj1 == [adj EXCEPT ![u] = adj_insert(@, edge_id, v)]
    IN [adj1 EXCEPT ![v] = adj_insert(@, edge_id, u)]

\* Graph::add_weighted_edge
WgAddWeightedEdge ==
    /\ wg_pc = "build"
    /\ VLen(wg_edges) < WgMaxEdges
    /\ \E u \in WgV, v \in WgV, weight \in 0..WgMaxWeight :
          /\ wg_adj' = add_adj(wg_adj, VLen(wg_edges), u, v)
          /\ wg_edges' = VPush(wg_edges, [u |-> u, v |-> v, weight |-> weight])
    /\ UNCHANGED <<wg_pc, wg_src, wg_dest, wg_ret>>

\* Graph::add_weighted_undirected_edge
WgAddWeightedUndirectedEdge ==
    /\ wg_pc = "build"
    /\ VLen(wg_edges) < WgMaxEdges
    /\ \E u \in WgV, v \in WgV, weight \in 0..WgMaxWeight :
          /\ wg_adj' = add_undirected_adj(wg_adj, VLen(wg_edges), u, v)
          /\ wg_edges' = VPush(wg_edges, [u |-> u, v |-> v, weight |-> weight])
    /\ UNCHANGED <<wg_pc, wg_src, wg_dest, wg_ret>>

\* BinaryHeap::pop on a heap of (Reverse(distance), vertex): the greatest
\* pair, which has the least distance and, among those, the greatest vertex.
heap_top(heap) ==
    CHOOSE x \in heap :
       \A y \in heap : x[1] < y[1] \/ (x[1] = y[1] /\ x[2] >= y[2])

\* A test that also skips the entry whose distance is the current one.
is_stale_or_equal(distance_now, distance_u) == distance_now <= distance_u

\* The first test of dijkstra on a popped entry: a shorter distance of u is
\* known by now.
is_stale(distance_now, distance_u) == distance_now < distance_u

RECURSIVE DijkstraAdj(_, _, _, _, _, _)
\* The for loop of dijkstra over the adjacency list of u, from position i;
\* st is [distance, prev, heap], prev[v] = -1 when v has no entry.
DijkstraAdj(edges, adj, u, distance_u, i, st) ==
    IF i > Len(adj[u]) THEN st
    ELSE LET edge_id == adj[u][i].edge_id
             v == adj[u][i].v
             distance_v == distance_u + edges[edge_id].weight
         IN IF st.distance[v] > distance_v
            THEN DijkstraAdj(edges, adj, u, distance_u, i + 1,
                    [distance |-> [st.distance EXCEPT ![v] = distance_v],
                     prev |-> [st.prev EXCEPT ![v] = u],
                     heap |-> st.heap \cup {<<distance_v, v>>}])
            ELSE DijkstraAdj(edges, adj, u, distance_u, i + 1, st)

RECURSIVE DijkstraLoop(_, _, _)
\* The while loop of dijkstra over the heap.
DijkstraLoop(edges, adj, st) ==
    IF st.heap = {} THEN st
    ELSE LET top == heap_top(st.heap)
             distance_u == top[1]
             u == top[2]
             popped == [st EXCEPT !.heap = @ \ {top}]
         IN IF is_stale(st.distance[u], distance_u) \/ Len(adj[u]) = 0
            THEN DijkstraLoop(edges, adj, popped)
            ELSE DijkstraLoop(edges, adj,
                              DijkstraAdj(edges, adj, u, distance_u, 1, popped))

\* Graph::dijkstra
dijkstra(edges, adj, u) ==
    LET st == DijkstraLoop(edges, adj,
                 [distance |-> [VecOf(WgNumV, UsizeMax) EXCEPT ![u] = 0],
                  prev |-> VecOf(WgNumV, -1),
                  heap |-> {<<0, u>>}])
    IN [distance |-> st.distance, prev |-> st.prev]

RECURSIVE PathBack(_, _, _)
\* The while loop of dijkstra_to: push_front the predecessors of v.
PathBack(prev, v, que) ==
    IF prev[v] = -1 THEN que ELSE PathBack(prev, prev[v], <<prev[v]>> \o que)

\* Graph::dijkstra_to
dijkstra_to(edges, adj, src, dest) ==
    LET r == dijkstra(edges, adj, src)
    IN [dist |-> r.distance[dest], path |-> PathBack(r.prev, dest, <<dest>>)]

\* A call of dijkstra(u), whose result is kept.
WgDijkstra ==
    /\ wg_pc = "build"
    /\ \E u \in WgV :
          /\ wg_ret' = dijkstra(wg_edges, wg_adj, u)
          /\ wg_src' = u
    /\ wg_pc' = "done"
    /\ UNCHANGED <<wg_edges, wg_adj, wg_dest>>

\* A call of dijkstra_to(src, dest), whose result is kept.
WgDijkstraTo ==
    /\ wg_pc = "build"
    /\ \E src \in WgV, dest \in WgV :
          /\ wg_ret' = dijkstra_to(wg_edges, wg_adj, src, dest)
          /\ wg_src' = src
          /\ wg_dest' = dest
    /\ wg_pc' = "done_to"
    /\ UNCHANGED <<wg_edges, wg_adj>>

(***************************************************************************)
(* graph/topo.rs: TopoGraph                                                *)
(***************************************************************************)
VARIABLES topo_edges, topo_adj, topo_indeg_cnt, topo_pc, topo_ret

topoVars == <<topo_edges, topo_adj, topo_indeg_cnt, topo_pc, topo_ret>>

\* The number of vertices of the graph sorted.
TopoNumV == 4
\* The largest number of edges added.
TopoMaxEdges == 4

TopoV == 0..(TopoNumV - 1)

\* TopoGraph::new; indeg_cnt is a HashMap, a function on the keys it holds.
TopoNew ==
    /\ topo_edges = EmptyVec
    /\ topo_adj = [u \in TopoV |-> <<>>]
    /\ topo_indeg_cnt = [v \in {} |-> 0]
    /\ topo_pc = "build"
    /\ topo_ret = [ok |-> FALSE, value |-> EmptyVec]

\* *indeg_cnt.entry(v).or_default() += 1
indeg_incr(indeg_cnt, v) ==
    [x \in (DOMAIN indeg_cnt) \cup {v} |->
        IF x # v THEN indeg_cnt[x]
        ELSE IF v \in DOMAIN indeg_cnt THEN indeg_cnt[v] + 1 ELSE 1]

\* TopoGraph::add_edge
TopoAddEdge ==
    /\ topo_pc = "build"
    /\ VLen(topo_edges) < TopoMaxEdges
    /\ \E u \in TopoV, v \in TopoV :
          /\ topo_adj' = add_adj(topo_adj, VLen(topo_edges), u, v)
          /\ topo_edges' = VPush(topo_edges, [u |-> u, v |-> v])
          /\ topo_indeg_cnt' = indeg_incr(topo_indeg_cnt, v)
    /\ UNCHANGED <<topo_pc, topo_ret>>

\* A heap of the vertices themselves, whose pop gives the greatest.
topo_heap_pop_greatest(heap) == CHOOSE i \in heap : \A j \in heap : i >= j

\* BinaryHeap::pop on a heap of Reverse(vertex): the least vertex.
topo_heap_pop(heap) == CHOOSE i \in heap : \A j \in heap : i <= j

RECURSIVE TopoAdj(_, _, _, _)
\* The for loop of topological_sort over the adjacency list of i, from
\* position k; st is [indeg_cnt, heap, sorted_nodes].
TopoAdj(adj, i, k, st) ==
    IF k > Len(adj[i]) THEN st
    ELSE LET v == adj[i][k].v
             indeg_cnt == [st.indeg_cnt EXCEPT ![v] = @ - 1]
         IN TopoAdj(adj, i, k + 1,
               [st EXCEPT !.indeg_cnt = indeg_cnt,
                          !.heap = IF indeg_cnt[v] = 0 THEN @ \cup {v} ELSE @])

RECURSIVE TopoLoop(_, _)
\* The while loop of topological_sort over the heap.
TopoLoop(adj, st) ==
    IF st.heap = {} THEN st
    ELSE LET i == topo_heap_pop(st.heap)
         IN TopoLoop(adj,
               TopoAdj(adj, i, 1,
                  [st EXCEPT !.heap = @ \ {i},
                             !.sorted_nodes = VPush(@, i)]))

\* TopoGraph::topological_sort: the result and the indeg_cnt it leaves.
topo_topological_sort(adj, indeg_cnt) ==
    LET st == TopoLoop(adj,
                 [indeg_cnt |-> indeg_cnt,
                  heap |-> {i \in TopoV : i \notin DOMAIN indeg_cnt},
                  sorted_nodes |-> EmptyVec])
    IN [ret |-> IF VLen(st.sorted_nodes) = TopoNumV
                THEN [ok |-> TRUE, value |-> st.sorted_nodes]
                ELSE [ok |-> FALSE, value |-> EmptyVec],
        indeg_cnt |-> st.indeg_cnt]

\* The call of topological_sort, made once.
TopoTopologicalSort ==
    /\ topo_pc = "build"
    /\ LET r == topo_topological_sort(topo_adj, topo_indeg_cnt)
       IN /\ topo_ret' = r.ret
          /\ topo_indeg_cnt' = r.indeg_cnt
    /\ topo_pc' = "done"
    /\ UNCHANGED <<topo_edges, topo_adj>>

(***************************************************************************)
(* graph/lca.rs: Lca                                                       *)
(***************************************************************************)
VARIABLES lca_dp, lca_dist, lca_adj, lca_pc, lca_call, lca_ret

lcaVars == <<lca_dp, lca_dist, lca_adj, lca_pc, lca_call, lca_ret>>

\* The number of vertices given to Lca::new.
LcaNumV == 5

LcaV == 0..(LcaNumV - 1)

RECURSIVE lca_new_m(_, _)
\* The while loop of Lca::new: m, from x = n and m = 1.
lca_new_m(x, m) == IF x > 0 THEN lca_new_m(x \div 2, m + 1) ELSE m

\* Lca::m
lca_m == lca_new_m(LcaNumV, 1)

\* Lca::new; no call has been made and no tree given yet.
LcaNew ==
    /\ lca_dp = VecOf(LcaNumV, VecOf(lca_m, 0))
    /\ lca_dist = VecOf(LcaNumV, 0)
    /\ lca_adj = VecOf(LcaNumV, <<>>)
    /\ lca_pc = "new"
    /\ lca_call = [op |-> "new", u |-> 0, v |-> 0, build |-> "debug"]
    /\ lca_ret = [panic |-> FALSE, value |-> 0]

RECURSIVE LcaDfsDp(_, _, _)
\* The first for loop of dfs: dp[u][i] for i from i to m - 1.
LcaDfsDp(dp, u, i) ==
    IF i >= lca_m THEN dp
    ELSE LcaDfsDp([dp EXCEPT ![u][i] = dp[dp[u][i - 1]][i - 1]], u, i + 1)

RECURSIVE LcaDfsAdj(_, _, _, _, _)
RECURSIVE lca_dfs(_, _, _, _)
\* The second for loop of dfs over adj[u], from position k; st is [dp, dist].
LcaDfsAdj(adj, u, p, k, st) ==
    IF k > Len(adj[u]) THEN st
    ELSE LET v == adj[u][k]
         IN IF v = p THEN LcaDfsAdj(adj, u, p, k + 1, st)
            ELSE LcaDfsAdj(adj, u, p, k + 1,
                    lca_dfs(adj, v, u,
                       [st EXCEPT !.dist[v] = st.dist[u] + 1]))

\* Lca::dfs
lca_dfs(adj, u, p, st) ==
    LcaDfsAdj(adj, u, p, 1,
       [st EXCEPT !.dp = LcaDfsDp([st.dp EXCEPT ![u][0] = p], u, 1)])

RECURSIVE LcaRootOf(_, _, _)
\* The vertex reached from v after k steps along the parents.
LcaRootOf(parent, v, k) ==
    IF k = 0 \/ v = 0 THEN v ELSE LcaRootOf(parent, parent[v], k - 1)

\* The trees on 0..n-1 rooted at 0, each as the parent of every other vertex.
LcaTrees ==
    {parent \in [LcaV \ {0} -> LcaV] :
        \A v \in LcaV \ {0} : LcaRootOf(parent, v, LcaNumV) = 0}

RECURSIVE LcaAdjOf(_, _, _)
\* The adjacency lists of the tree, built as the test of lca.rs builds them:
\* for every edge (u, v) in turn, adj[u].push(v) and adj[v].push(u).
LcaAdjOf(parent, v, adj) ==
    IF v >= LcaNumV THEN adj
    ELSE LET adj1 == [adj EXCEPT ![parent[v]] = Append(@, v)]
         IN LcaAdjOf(parent, v + 1, [adj1 EXCEPT ![v] = Append(@, parent[v])])

\* Lca::init, given the adjacency lists of a tree.
LcaInit ==
    /\ lca_pc = "new"
    /\ \E parent \in LcaTrees :
          LET adj == LcaAdjOf(parent, 1, VecOf(LcaNumV, <<>>))
              st == lca_dfs(adj, 0, 0, [dp |-> lca_dp, dist |-> lca_dist])
          IN /\ lca_adj' = adj
             /\ lca_dp' = st.dp
             /\ lca_dist' = st.dist
    /\ lca_pc' = "ready"
    /\ UNCHANGED <<lca_call, lca_ret>>

\* a - b on usize. When a < b a build with overflow checks (debug) panics
\* and a build without them (release) wraps: the value a - b < 0 then stands
\* for 2^64 + a - b.
usize_sub(a, b, build) ==
    IF a >= b THEN [panic |-> FALSE, value |-> a - b]
    ELSE IF build = "debug" THEN [panic |-> TRUE, value |-> 0]
    ELSE [panic |-> FALSE, value |-> a - b]

\* d >> i & 1 for i < 20; a wrapped d has the low bits of 2^20 + d.
usize_bit(d, i) == ((d + 2^20) \div 2^i) % 2

RECURSIVE LcaLift(_, _, _)
\* The first for loop of lca, from i: v is moved up by the bits of d.
LcaLift(v, d, i) ==
    IF i >= lca_m THEN v
    ELSE LcaLift(IF usize_bit(d, i) = 1 THEN lca_dp[v][i] ELSE v, d, i + 1)

RECURSIVE LcaClimb(_, _, _)
\* The second for loop of lca, from i down to 0: u and v are moved up while
\* their ancestors differ.
LcaClimb(u, v, i) ==
    IF i < 0 THEN u
    ELSE IF lca_dp[u][i] # lca_dp[v][i]
         THEN LcaClimb(lca_dp[u][i], lca_dp[v][i], i - 1)
         ELSE LcaClimb(u, v, i - 1)

\* if u > v { swap(u, v) }
lca_swap(u, v) == IF u > v THEN <<v, u>> ELSE <<u, v>>

\* Lca::lca
lca(u0, v0, build) ==
    LET uv == lca_swap(u0, v0)
        u == uv[1]
        v == uv[2]
        d == usize_sub(lca_dist[v], lca_dist[u], build)
    IN IF d.panic THEN d
       ELSE LET v1 == LcaLift(v, d.value, 0)
            IN IF u = v1 THEN [panic |-> FALSE, value |-> u]
               ELSE [panic |-> FALSE,
                     value |-> lca_dp[LcaClimb(u, v1, lca_m - 1)][0]]

\* Lca::len
lca_len(u, v, build) ==
    LET l == lca(u, v, build)
    IN IF l.panic THEN l
       ELSE usize_sub(lca_dist[u] + lca_dist[v], 2 * lca_dist[l.value], build)

\* A call of lca(u, v) in either build, whose result is kept.
LcaLca ==
    /\ lca_pc \in {"ready", "done"}
    /\ \E u \in LcaV, v \in LcaV, build \in {"debug", "release"} :
          /\ lca_call' = [op |-> "lca", u |-> u, v |-> v, build |-> build]
          /\ lca_ret' = lca(u, v, build)
    /\ lca_pc' = "done"
    /\ UNCHANGED <<lca_dp, lca_dist, lca_adj>>

\* A call of len(u, v) in either build, whose result is kept.
LcaLen ==
    /\ lca_pc \in {"ready", "done"}
    /\ \E u \in LcaV, v \in LcaV, build \in {"debug", "release"} :
          /\ lca_call' = [op |-> "len", u |-> u, v |-> v, build |-> build]
          /\ lca_ret' = lca_len(u, v, build)
    /\ lca_pc' = "done"
    /\ UNCHANGED <<lca_dp, lca_dist, lca_adj>>

(***************************************************************************)
(* range_query/fenwick.rs: FenwickTree                                     *)
(***************************************************************************)
VARIABLES fen_identity, fen_n, fen_bit,
          \* the adds made so far, <<idx, a>> each, and the last call,
          \* [op, l, r, panic, ret]
          fen_log, fen_call

fenVars == <<fen_identity, fen_n, fen_bit, fen_log, fen_call>>

\* The n given to FenwickTree::new.
FenN == 4
\* The largest number of calls of add.
FenMaxAdds == 3
\* The largest value added; the least is its negative.
FenMaxVal == 2

\* FenwickTree::new(n, 0)
FenNew ==
    /\ fen_identity = 0
    /\ fen_n = FenN
    /\ fen_bit = VecOf(FenN + 1, 0)
    /\ fen_log = <<>>
    /\ fen_call = [op |-> "new", l |-> 0, r |-> 0, panic |-> FALSE, ret |-> 0]

RECURSIVE BitAnd(_, _)
\* a & b of two numbers that are not negative, bit by bit.
BitAnd(a, b) ==
    IF a = 0 \/ b = 0 THEN 0
    ELSE (a % 2) * (b % 2) + 2 * BitAnd(a \div 2, b \div 2)

\* (idx64 & -idx64) as usize for 0 <= idx < 2^20: in two's complement the
\* low 20 bits of -idx64 are those of 2^20 - idx, and idx has no higher bit.
lowbit(idx) == BitAnd(idx, (2^20 - idx) % 2^20)

RECURSIVE FenAddLoop(_, _, _)
\* The loop of add, from idx.
FenAddLoop(bit, idx, a) ==
    IF idx > fen_n THEN bit
    ELSE FenAddLoop([bit EXCEPT ![idx] = bit[idx] + a], idx + lowbit(idx), a)

\* A step of sum0 to the index just below.
sum0_next_linear(idx) == idx - 1

\* idx -= (idx64 & -idx64) as usize
sum0_next(idx) == idx - lowbit(idx)

RECURSIVE Sum0Loop(_, _)
\* The loop of sum0, from idx with ret.
Sum0Loop(idx, ret) ==
    IF idx <= 0 THEN ret
    ELSE Sum0Loop(sum0_next(idx), ret + fen_bit[idx])

\* FenwickTree::sum0
sum0(idx) == Sum0Loop(idx, fen_identity)

\* FenwickTree::add; an idx that is not below n panics.
FenAdd ==
    /\ Len(fen_log) < FenMaxAdds
    /\ \E idx \in 0..FenN, a \in (0 - FenMaxVal)..FenMaxVal :
          IF idx >= fen_n
          THEN /\ fen_call' = [op |-> "add", l |-> idx, r |-> idx,
                               panic |-> TRUE, ret |-> 0]
               /\ UNCHANGED <<fen_bit, fen_log>>
          ELSE /\ fen_bit' = FenAddLoop(fen_bit, idx + 1, a)
               /\ fen_log' = Append(fen_log, <<idx, a>>)
               /\ fen_call' = [op |-> "add", l |-> idx, r |-> idx,
                               panic |-> FALSE, ret |-> 0]
    /\ UNCHANGED <<fen_identity, fen_n>>

\* FenwickTree::sum; l > r panics.
FenSum ==
    /\ \E l \in 0..FenN, r \in 0..FenN :
          fen_call' = IF l > r
                      THEN [op |-> "sum", l |-> l, r |-> r,
                            panic |-> TRUE, ret |-> 0]
                      ELSE [op |-> "sum", l |-> l, r |-> r,
                            panic |-> FALSE, ret |-> sum0(r) - sum0(l)]
    /\ UNCHANGED <<fen_identity, fen_n, fen_bit, fen_log>>

(***************************************************************************)
(* The specifications: every structure constructed, then the methods of   *)
(* one of them.                                                            *)
(***************************************************************************)
vars == <<dinicVars, flowVars, connVars, dsuVars, wgVars, topoVars,
          lcaVars, fenVars>>

InitWith(conn_n) ==
    /\ DinicNew /\ FlowNew /\ ConnNew(conn_n) /\ DsuNew /\ WgNew /\ TopoNew
    /\ LcaNew /\ FenNew

Init == InitWith(SccNumV)

NextDinic ==
    /\ DinicAddEdge \/ DinicAddEdgeRcap \/ DinicRun
    /\ UNCHANGED <<flowVars, connVars, dsuVars, wgVars, topoVars,
                   lcaVars, fenVars>>

SpecDinic == Init /\ [][NextDinic]_vars

NextFlow ==
    /\ FlowAddEdge \/ FlowMcf \/ FlowMcfFlowLimit
    /\ UNCHANGED <<dinicVars, connVars, dsuVars, wgVars, topoVars,
                   lcaVars, fenVars>>

SpecFlow == Init /\ [][NextFlow]_vars

\* A directed graph: add_edge and build(true), in any order.
NextScc ==
    /\ ConnAddEdge \/ ConnBuild(TRUE)
    /\ UNCHANGED <<dinicVars, flowVars, dsuVars, wgVars, topoVars,
                   lcaVars, fenVars>>

SpecScc == InitWith(SccNumV) /\ [][NextScc]_vars

\* A 2-CNF formula: add_two_sat_clause and build(true), in any order.
NextTwoSat ==
    /\ ConnAddTwoSatClause \/ ConnBuild(TRUE)
    /\ UNCHANGED <<dinicVars, flowVars, dsuVars, wgVars, topoVars,
                   lcaVars, fenVars>>

SpecTwoSat == InitWith(2 * TwoSatNumVars) /\ [][NextTwoSat]_vars

\* An undirected graph: add_undirected_edge and build(false), in any order.
NextBcc ==
    /\ ConnAddUndirectedEdge \/ ConnBuild(FALSE)
    /\ UNCHANGED <<dinicVars, flowVars, dsuVars, wgVars, topoVars,
                   lcaVars, fenVars>>

SpecBcc == InitWith(BccNumV) /\ [][NextBcc]_vars

NextDsu ==
    /\ DsuMerge \/ DsuFind \/ DsuCount \/ DsuSame
    /\ UNCHANGED <<dinicVars, flowVars, connVars, wgVars, topoVars,
                   lcaVars, fenVars>>

SpecDsu == Init /\ [][NextDsu]_vars

NextDijkstra ==
    /\ WgAddWeightedEdge \/ WgAddWeightedUndirectedEdge \/ WgDijkstra
       \/ WgDijkstraTo
    /\ UNCHANGED <<dinicVars, flowVars, connVars, dsuVars, topoVars,
                   lcaVars, fenVars>>

SpecDijkstra == Init /\ [][NextDijkstra]_vars

NextTopo ==
    /\ TopoAddEdge \/ TopoTopologicalSort
    /\ UNCHANGED <<dinicVars, flowVars, connVars, dsuVars, wgVars,
                   lcaVars, fenVars>>

SpecTopo == Init /\ [][NextTopo]_vars

NextLca ==
    /\ LcaInit \/ LcaLca \/ LcaLen
    /\ UNCHANGED <<dinicVars, flowVars, connVars, dsuVars, wgVars, topoVars,
                   fenVars>>

SpecLca == Init /\ [][NextLca]_vars

NextFenwick ==
    /\ FenAdd \/ FenSum
    /\ UNCHANGED <<dinicVars, flowVars, connVars, dsuVars, wgVars, topoVars,
                   lcaVars>>

SpecFenwick == Init /\ [][NextFenwick]_vars

(***************************************************************************)
(* Maximum flow and minimum cut, stated without the algorithm.             *)
(***************************************************************************)
RECURSIVE NetOutFrom(_, _, _)
\* The net flow that leaves vertex w over the edges added from index e on.
NetOutFrom(edges, w, e) ==
    IF e \notin DOMAIN edges THEN 0
    ELSE (IF edges[e].u = w THEN edges[e].flow ELSE 0)
         - (IF edges[e].v = w THEN edges[e].flow ELSE 0)
         + NetOutFrom(edges, w, e + 2)

\* The net flow that leaves vertex w: over the edges added (even indices),
\* the flow of those that start at w minus the flow of those that end at w.
NetOut(edges, w) == NetOutFrom(edges, w, 0)

\* The flows of edges are within the capacities both ways, the residual
\* twin mirrors its edge, and flow is conserved except at s and t.
IsFlow(edges, V, s, t) ==
    /\ \A e \in DOMAIN edges :
          /\ edges[e].flow <= edges[e].cap
          /\ edges[Xor1(e)].flow = -edges[e].flow
    /\ \A w \in V \ {s, t} : NetOut(edges, w) = 0

\* Every assignment of a flow within the capacities to the edges added, as
\* an edge array.
FlowAssignments(edges, range) ==
    LET added == {e \in DOMAIN edges : e % 2 = 0}
        within == {f \in [added -> range] :
                     \A e \in added : f[e] <= edges[e].cap /\ -f[e] <= edges[e + 1].cap}
    IN {[e \in DOMAIN edges |->
            [edges[e] EXCEPT !.flow = IF e % 2 = 0 THEN f[e] ELSE -f[Xor1(e)]]] :
        f \in within}

RECURSIVE ReachFrom(_, _)
\* The vertices reachable from the set R along edges with flow < cap.
ReachFrom(edges, R) ==
    LET more == {edges[e].v : e \in {d \in DOMAIN edges :
                     edges[d].u \in R /\ edges[d].flow < edges[d].cap}}
    IN IF more \subseteq R THEN R ELSE ReachFrom(edges, R \cup more)

\* C1: once dinic(s, t) has returned, the edge flows are a feasible s-t
\* flow whose value (the net flow leaving s) is the value returned, no
\* feasible s-t flow has a larger value, and t cannot be reached from s in
\* the residual graph.
DinicReturnsMaxFlow ==
    dinic_pc = "done" =>
        /\ IsFlow(dinic_edges, DinicV, dinic_s, dinic_t)
        /\ dinic_max_flow = NetOut(dinic_edges, dinic_s)
        /\ \A g \in FlowAssignments(dinic_edges, (0 - DinicMaxRcap)..DinicMaxCap) :
              IsFlow(g, DinicV, dinic_s, dinic_t) => NetOut(g, dinic_s) <= dinic_max_flow
        /\ dinic_t \notin ReachFrom(dinic_edges, {dinic_s})

\* dinic has returned a flow of 3 that took two phases: one unit on an edge
\* from s to t and the rest through the third vertex.
DinicTwoPhaseWitness ==
    /\ dinic_pc = "done"
    /\ dinic_max_flow = 3
    /\ \E e \in DOMAIN dinic_edges :
          /\ dinic_edges[e].u = dinic_s
          /\ dinic_edges[e].v \notin {dinic_s, dinic_t}
          /\ dinic_edges[e].flow > 0

\* C2: once dinic(s, t) has returned, min_cut is exactly the set of indices
\* of the edges, residual twins included, from a vertex reachable from s in
\* the residual graph to one that is not, and their capacities sum to the
\* flow value returned.
MinCutIsDual ==
    dinic_pc = "done" =>
        LET R == ReachFrom(dinic_edges, {dinic_s})
        IN /\ min_cut = {e \in DOMAIN dinic_edges :
                            dinic_edges[e].u \in R /\ dinic_edges[e].v \notin R}
           /\ SumOver(min_cut, [e \in DOMAIN dinic_edges |-> dinic_edges[e].cap])
                = dinic_max_flow

\* A minimum cut made of an added edge and of a residual twin with reverse
\* capacity, both saturated.
MinCutWitness ==
    /\ dinic_pc = "done"
    /\ dinic_max_flow > 0
    /\ \E e \in min_cut : e % 2 = 0 /\ dinic_edges[e].cap > 0
    /\ \E e \in min_cut : e % 2 = 1 /\ dinic_edges[e].cap > 0

(***************************************************************************)
(* Minimum cost flow, stated without the algorithm.                        *)
(***************************************************************************)
RECURSIVE FlowCostFrom(_, _)
\* The sum of flow * cost over the edges added (even indices) from e on.
FlowCostFrom(edges, e) ==
    IF e \notin DOMAIN edges THEN 0
    ELSE edges[e].flow * edges[e].cost + FlowCostFrom(edges, e + 2)

FlowCost(edges) == FlowCostFrom(edges, 0)

RECURSIVE AssignNet(_, _, _, _)
\* The net flow leaving w when edge e carries f[e], over the edges from e on.
AssignNet(edges, f, w, e) ==
    IF e \notin DOMAIN edges THEN 0
    ELSE (IF edges[e].u = w THEN f[e] ELSE 0) - (IF edges[e].v = w THEN f[e] ELSE 0)
         + AssignNet(edges, f, w, e + 2)

RECURSIVE AssignCost(_, _, _)
\* The cost of the assignment f, over the edges from e on.
AssignCost(edges, f, e) ==
    IF e \notin DOMAIN edges THEN 0
    ELSE f[e] * edges[e].cost + AssignCost(edges, f, e + 2)

\* <<value, cost>> of every feasible s-t flow of the network of flow_edges:
\* an assignment of a flow 0..cap to every edge added (every reverse capacity
\* is 0) that is conserved at the vertices other than s and t.
FeasibleValueCost ==
    LET added == {e \in DOMAIN flow_edges : e % 2 = 0}
    IN {<<AssignNet(flow_edges, f, flow_s, 0), AssignCost(flow_edges, f, 0)>> :
          f \in {h \in [added -> 0..FlowMaxCap] :
                   /\ \A e \in added : h[e] <= flow_edges[e].cap
                   /\ \A w \in FlowV \ {flow_s, flow_t} :
                         AssignNet(flow_edges, h, w, 0) = 0}}

\* What the claim says of a call that returned <<cost, flow>> with limit L
\* (FlowINF for mcf): flow is min(L, maximum flow value) and cost is the
\* least cost of a feasible flow of that value, which the edges now carry.
McfReturnIsOptimal ==
    LET cost == flow_ret[1]
        flow == flow_ret[2]
        F == FeasibleValueCost
    IN /\ \A vc \in F : vc[1] <= flow \/ flow = flow_limit_arg
       /\ flow <= flow_limit_arg
       /\ IsFlow(flow_edges, FlowV, flow_s, flow_t)
       /\ NetOut(flow_edges, flow_s) = flow
       /\ FlowCost(flow_edges) = cost
       /\ \A vc \in F : vc[1] = flow => cost <= vc[2]

\* C3 as stated: every call of mcf or mcf_flow_limit returns flow =
\* min(L, maximum flow), never more than L, at the least cost.
McfOptimalForEveryLimit == flow_pc = "done" => McfReturnIsOptimal

\* C3, amended: a call with a flow limit L >= 0 (mcf: L = i64::MAX) returns
\* flow = min(L, maximum flow) at the least cost of a feasible flow of that
\* value; a call with L < 0 returns (0, 0) and leaves every flow at 0.
McfOptimalForLimitAtLeastZero ==
    flow_pc = "done" =>
        IF flow_limit_arg >= 0 THEN McfReturnIsOptimal
        ELSE /\ flow_ret = <<0, 0>>
             /\ \A e \in DOMAIN flow_edges : flow_edges[e].flow = 0

\* mcf has sent two units along two paths of different cost, one of them
\* through a negative-cost edge, at a total cost that is not 0.
McfTwoPathsWitness ==
    /\ flow_pc = "done"
    /\ flow_limit_arg = FlowINF
    /\ flow_ret[2] = 2
    /\ flow_ret[1] # 0
    /\ \E e \in DOMAIN flow_edges : flow_edges[e].cost < 0 /\ flow_edges[e].flow = 1
    /\ \E e \in DOMAIN flow_edges :
          /\ flow_edges[e].u = flow_s /\ flow_edges[e].v = flow_t
          /\ flow_edges[e].flow = 1

\* mcf_flow_limit has stopped at its limit, below the maximum flow.
McfLimitedWitness ==
    /\ flow_pc = "done"
    /\ flow_limit_arg = 1
    /\ flow_ret[2] = 1
    /\ \E vc \in FeasibleValueCost : vc[1] = 2

(***************************************************************************)
(* Connectivity, stated without the algorithm.                             *)
(***************************************************************************)
RECURSIVE ConnReach(_, _)
\* The vertices reachable from the set R along the edges in E (pairs).
ConnReach(E, R) ==
    LET more == {e[2] : e \in {d \in E : d[1] \in R}}
    IN IF more \subseteq R THEN R ELSE ConnReach(E, R \cup more)

DirectedEdges == {conn_edges[e] : e \in DOMAIN conn_edges}

\* The position of vertex u in an order of the vertices.
PositionIn(order, u) == CHOOSE i \in DOMAIN order : order[i] = u

\* C4: after build(true) on a directed graph every cc[v] is in 1..num_cc,
\* two vertices have the same id exactly when each is reachable from the
\* other, and for every edge u -> v between two components cc[u] > cc[v] and
\* every result of topological_sort lists u before v.
SccIdsAreReverseTopological ==
    conn_built =>
        LET reach == [u \in ConnV |-> ConnReach(DirectedEdges, {u})]
            across == {e \in DirectedEdges : conn_cc[e[1]] # conn_cc[e[2]]}
        IN /\ \A v \in ConnV : conn_cc[v] \in 1..conn_num_cc
           /\ \A u, v \in ConnV :
                 conn_cc[u] = conn_cc[v] <=> (v \in reach[u] /\ u \in reach[v])
           /\ \A e \in across : conn_cc[e[1]] > conn_cc[e[2]]
           /\ \A order \in topological_sort :
                 \A e \in across :
                    PositionIn(order, e[1]) < PositionIn(order, e[2])

\* A built graph with a component of two or more vertices, a self-loop and
\* an edge from one component to another.
SccWitness ==
    /\ conn_built
    /\ \E u, v \in ConnV : u # v /\ conn_cc[u] = conn_cc[v]
    /\ \E e \in DirectedEdges : e[1] = e[2]
    /\ \E e \in DirectedEdges : conn_cc[e[1]] # conn_cc[e[2]]

\* The clauses added: add_two_sat_clause(u, v) pushes the edges (u^1, v) and
\* (v^1, u).
Clauses ==
    {<<Xor1(conn_edges[e][1]), conn_edges[e][2]>> :
        e \in {d \in DOMAIN conn_edges : d % 2 = 0}}

\* The value of the literal of vertex u under the assignment a: vertex 2i
\* is variable i and vertex 2i+1 its negation.
Literal(a, u) == IF u % 2 = 0 THEN a[u \div 2] ELSE ~a[u \div 2]

Satisfies(a) == \A c \in Clauses : Literal(a, c[1]) \/ Literal(a, c[2])

\* C5: after build(true), also a repeated one, two_sat_assign returns None
\* exactly when no assignment satisfies every clause added, and otherwise
\* an assignment that satisfies them all.
TwoSatAssignIsCorrect ==
    conn_built =>
        /\ two_sat_assign = None
             <=> ~\E a \in [0..(TwoSatNumVars - 1) -> BOOLEAN] : Satisfies(a)
        /\ two_sat_assign.some => Satisfies(two_sat_assign.value)

\* Clauses were added to a built formula and build(true) was called again:
\* two_sat_assign now returns None.
TwoSatRebuiltWitness ==
    /\ conn_built
    /\ conn_rebuilt
    /\ two_sat_assign = None

\* A satisfiable formula of three clauses or more with an assignment.
TwoSatAssignedWitness ==
    /\ conn_built
    /\ Cardinality(Clauses) >= 3
    /\ two_sat_assign.some

UndirectedEdges ==
    DirectedEdges \cup {<<e[2], e[1]>> : e \in DirectedEdges}

\* u is an articulation vertex: two other vertices are connected, and are
\* not once u and its edges are removed (so the removal adds a component).
IsArticulation(u) ==
    LET without == {e \in UndirectedEdges : e[1] # u /\ e[2] # u}
    IN \E a, b \in ConnV \ {u} :
          /\ b \in ConnReach(UndirectedEdges, {a})
          /\ b \notin ConnReach(without, {a})

\* C6: after build(false) on an undirected graph, parallel edges and
\* self-loops included, is_cut_vertex(u) holds exactly for the
\* articulation vertices.
CutVertexIsArticulation ==
    conn_built => \A u \in ConnV : is_cut_vertex(u) <=> IsArticulation(u)

\* The same on the graphs without self-loops.
CutVertexIsArticulationWithoutLoops ==
    (conn_built /\ \A e \in DirectedEdges : e[1] # e[2]) =>
        \A u \in ConnV : is_cut_vertex(u) <=> IsArticulation(u)

\* is_cut_vertex(0) holds on the graph of a self-loop at 0 and the edge
\* 0 - 1, where removing 0 leaves the other vertices as they were.
CutVertexSelfLoopCase ==
    /\ conn_built
    /\ conn_edges = VPush(VPush(EmptyVec, <<0, 0>>), <<0, 1>>)
    /\ is_cut_vertex(0)
    /\ ~IsArticulation(0)

(***************************************************************************)
(* Disjoint sets.                                                          *)
(***************************************************************************)
\* The set of the family P that holds v.
SetOf(P, v) == CHOOSE S \in P : v \in S

\* C7: merge(u, v) returns true exactly when u and v were in different sets
\* before the call; after it same(u, v) holds and the sets are those of
\* before with the sets of u and v united; find, count and same leave the
\* sets as they were.
MergeUnitesTwoSets ==
    LET now == DsuSets(dsu_parent, dsu_size_nodes)
        u == dsu_call.u
        v == dsu_call.v
    IN /\ dsu_call.op = "merge" =>
            LET Su == SetOf(dsu_before, u)
                Sv == SetOf(dsu_before, v)
            IN /\ dsu_call.ret = (Su # Sv)
               /\ same(dsu_parent, dsu_size_nodes, u, v).ret
               /\ now = (dsu_before \ {Su, Sv}) \cup {Su \cup Sv}
       /\ dsu_call.op \in {"find", "count", "same"} => now = dsu_before

\* merge has returned true on two sets of two elements each, whose paths
\* find then compresses.
MergeWitness ==
    /\ dsu_call.op = "merge"
    /\ dsu_call.ret = TRUE
    /\ Cardinality(SetOf(dsu_before, dsu_call.u)) = 2
    /\ Cardinality(SetOf(dsu_before, dsu_call.v)) = 2

\* C8: in every state count(v) is the number of elements of the set of v,
\* size_nodes is positive exactly at the representatives (the roots, which
\* are their own parent and what find returns for them), and count_sets is
\* the number of sets, which is the size minus the merges that returned true.
CountsAreSetSizes ==
    LET now == DsuSets(dsu_parent, dsu_size_nodes)
    IN /\ \A v \in DsuV :
             count(dsu_parent, dsu_size_nodes, v).ret = Cardinality(SetOf(now, v))
       /\ \A v \in DsuV :
             dsu_size_nodes[v] > 0
               <=> (dsu_parent[v] = v
                    /\ \A w \in SetOf(now, v) :
                          find(dsu_parent, dsu_size_nodes, w).ret = v)
       /\ count_sets = Cardinality(now)
       /\ count_sets = DsuSize - dsu_merged

\* A set of three elements beside a set of one, after count was called.
CountWitness ==
    /\ dsu_call.op = "count"
    /\ dsu_call.ret = 3
    /\ count_sets = 2

(***************************************************************************)
(* Shortest paths, stated without the algorithm.                           *)
(***************************************************************************)
\* The steps the graph allows, <<a, b, weight>>: along an edge a -> b, or
\* back along an undirected edge, which is in both adjacency lists.
Steps ==
    UNION {{<<a, wg_adj[a][i].v, wg_edges[wg_adj[a][i].edge_id].weight>> :
               i \in 1..Len(wg_adj[a])} : a \in WgV}

Least(W) == CHOOSE x \in W : \A y \in W : x <= y

\* The weights of the steps from a to b.
StepWeights(steps, a, b) == {t[3] : t \in {x \in steps : x[1] = a /\ x[2] = b}}

RECURSIVE ShortestWithin(_, _, _)
\* From P[v], the least weight of a path of at most j steps from the source
\* to v, that of a path of at most j + k steps; UsizeMax stands for no path.
ShortestWithin(steps, P, k) ==
    IF k = 0 THEN P
    ELSE ShortestWithin(steps,
            [v \in WgV |->
               Least({P[v]} \cup
                     {P[t[1]] + t[3] :
                        t \in {x \in steps : x[2] = v /\ P[x[1]] < UsizeMax}})],
            k - 1)

RECURSIVE PathWeight(_, _, _)
\* The weight of the path from its position i on, each step along the
\* lightest edge between its two vertices.
PathWeight(steps, path, i) ==
    IF i >= Len(path) THEN 0
    ELSE Least(StepWeights(steps, path[i], path[i + 1]))
         + PathWeight(steps, path, i + 1)

\* C9: dijkstra(u) returns the least path weight from u for every vertex,
\* usize::MAX for the unreachable ones; prev maps every reached vertex but u
\* to a neighbour from which one edge completes a shortest path; and for a
\* reachable dest dijkstra_to(u, dest) returns that distance and a path from
\* u to dest along existing edges of that total weight.
DijkstraIsShortest ==
    LET steps == Steps
        best == ShortestWithin(steps,
                   [v \in WgV |-> IF v = wg_src THEN 0 ELSE UsizeMax],
                   WgNumV - 1)
    IN /\ wg_pc = "done" =>
             /\ wg_ret.distance = best
             /\ \A v \in WgV \ {wg_src} :
                   best[v] < UsizeMax =>
                      /\ wg_ret.prev[v] \in WgV
                      /\ \E w \in StepWeights(steps, wg_ret.prev[v], v) :
                            best[wg_ret.prev[v]] + w = best[v]
       /\ wg_pc = "done_to" /\ best[wg_dest] < UsizeMax =>
             /\ wg_ret.dist = best[wg_dest]
             /\ wg_ret.path[1] = wg_src
             /\ wg_ret.path[Len(wg_ret.path)] = wg_dest
             /\ \A i \in 1..(Len(wg_ret.path) - 1) :
                   StepWeights(steps, wg_ret.path[i], wg_ret.path[i + 1]) # {}
             /\ PathWeight(steps, wg_ret.path, 1) = wg_ret.dist

\* dijkstra_to has returned a path of two edges that is lighter than the
\* edge from the source to the destination, so that dijkstra lowered the
\* distance it first gave to the destination.
DijkstraWitness ==
    /\ wg_pc = "done_to"
    /\ Len(wg_ret.path) = 3
    /\ StepWeights(Steps, wg_src, wg_dest) # {}
    /\ wg_ret.dist > 0
    /\ wg_ret.dist < Least(StepWeights(Steps, wg_src, wg_dest))

(***************************************************************************)
(* Topological orders, stated without the algorithm.                       *)
(***************************************************************************)
\* The edges added, as pairs <<u, v>>.
TopoEdgeSet == {<<topo_edges[e].u, topo_edges[e].v>> : e \in DOMAIN topo_edges}

RECURSIVE TopoClosure(_, _)
\* The pairs joined by a path of 1 to 2^k edges of R.
TopoClosure(R, k) ==
    IF k = 0 THEN R
    ELSE TopoClosure(R \cup {p \in TopoV \X TopoV :
                                \E b \in TopoV : /\ <<p[1], b>> \in R
                                                 /\ <<b, p[2]>> \in R},
                     k - 1)

HasDirectedCycle ==
    \E v \in TopoV : <<v, v>> \in TopoClosure(TopoEdgeSet, TopoNumV)

\* The orders that hold every vertex once and u before v for every edge.
TopoOrders ==
    {order \in [0..(TopoNumV - 1) -> TopoV] :
        /\ \A i, j \in DOMAIN order : order[i] = order[j] => i = j
        /\ \A e \in TopoEdgeSet :
              PositionIn(order, e[1]) < PositionIn(order, e[2])}

\* p is before q in the lexicographical order.
LexLess(p, q) ==
    \E i \in DOMAIN p : p[i] < q[i] /\ \A j \in DOMAIN p : j < i => p[j] = q[j]

\* C10: topological_sort, called once on a graph built with add_edge,
\* returns Err(()) exactly when the graph has a directed cycle, and
\* otherwise Ok(order) where order holds every vertex exactly once, has u
\* before v for every edge u -> v, and is the lexicographically smallest
\* such order.
TopologicalSortIsLeastOrder ==
    topo_pc = "done" =>
        /\ ~topo_ret.ok <=> HasDirectedCycle
        /\ topo_ret.ok =>
              /\ topo_ret.value \in TopoOrders
              /\ \A order \in TopoOrders :
                    order = topo_ret.value \/ LexLess(topo_ret.value, order)

\* topological_sort has returned an order of a graph of three edges or more
\* that has other orders, and a vertex is listed before a smaller one.
TopologicalSortWitness ==
    /\ topo_pc = "done"
    /\ topo_ret.ok
    /\ VLen(topo_edges) >= 3
    /\ Cardinality(TopoOrders) > 1
    /\ \E i \in DOMAIN topo_ret.value :
          i > 0 /\ topo_ret.value[i - 1] > topo_ret.value[i]

(***************************************************************************)
(* Lowest common ancestors, stated without the tables.                     *)
(***************************************************************************)
\* The edges of the tree given to init, as pairs in both directions.
LcaEdges ==
    UNION {{<<u, lca_adj[u][k]>> : k \in 1..Len(lca_adj[u])} : u \in LcaV}

\* a is on the path from the root to v: a is v, or the root, or without a
\* the root does not reach v.
LcaIsAncestor(a, v) ==
    \/ a = v
    \/ a = 0
    \/ v \notin ConnReach({e \in LcaEdges : e[1] # a /\ e[2] # a}, {0})

LcaAncestors(v) == {a \in LcaV : LcaIsAncestor(a, v)}

LcaDepth(v) == Cardinality(LcaAncestors(v)) - 1

\* The deepest vertex that is an ancestor of both u and v.
LcaDeepestCommon(u, v) ==
    LET common == LcaAncestors(u) \cap LcaAncestors(v)
    IN CHOOSE a \in common : \A b \in common : LcaDepth(b) <= LcaDepth(a)

\* The number of edges of the path between u and v: one below every vertex
\* that is an ancestor of one of the two and not of the other.
LcaPathEdges(u, v) ==
    Cardinality((LcaAncestors(u) \cup LcaAncestors(v))
                \ (LcaAncestors(u) \cap LcaAncestors(v)))

\* The call kept returned what the tree says it should.
LcaCallIsRight ==
    /\ ~lca_ret.panic
    /\ lca_call.op = "lca" =>
          lca_ret.value = LcaDeepestCommon(lca_call.u, lca_call.v)
    /\ lca_call.op = "len" =>
          lca_ret.value = LcaPathEdges(lca_call.u, lca_call.v)

\* C11: for any tree on 0..n-1 rooted at 0 given to init, whatever the
\* numbering of the vertices relative to their depth, and any u and v,
\* lca(u, v) returns the deepest vertex that is an ancestor of both and
\* len(u, v) the number of edges of the path between u and v.
LcaReturnsDeepestCommonAncestor == lca_pc = "done" => LcaCallIsRight

\* The smaller of the two vertices of the call is deeper than the greater.
LcaSmallerIsDeeper ==
    LET uv == lca_swap(lca_call.u, lca_call.v)
    IN lca_dist[uv[1]] > lca_dist[uv[2]]

\* The calls in which the smaller vertex is not the deeper return what the
\* tree says.
LcaRightWhenSmallerIsNotDeeper ==
    lca_pc = "done" /\ ~LcaSmallerIsDeeper => LcaCallIsRight

\* A call of lca in which the smaller vertex is the deeper.
LcaSmallerIsDeeperCase ==
    lca_pc = "done" /\ lca_call.op = "lca" /\ LcaSmallerIsDeeper

(***************************************************************************)
(* Range sums, stated on the values added.                                 *)
(***************************************************************************)
RECURSIVE FenAddedFrom(_, _, _)
\* The sum of the values of the adds from position k on whose index is in
\* l..(r - 1).
FenAddedFrom(k, l, r) ==
    IF k > Len(fen_log) THEN 0
    ELSE (IF l <= fen_log[k][1] /\ fen_log[k][1] < r THEN fen_log[k][2] ELSE 0)
         + FenAddedFrom(k + 1, l, r)

\* C12: after any sequence of add(idx, a) with idx < n on
\* FenwickTree::new(n, 0), sum(l, r) for l <= r <= n is the sum of the values
\* a added at the indices idx with l <= idx < r, which is 0 when l = r.
FenwickSumIsSumOfAdded ==
    fen_call.op = "sum" /\ fen_call.l <= fen_call.r =>
        /\ ~fen_call.panic
        /\ fen_call.ret = FenAddedFrom(1, fen_call.l, fen_call.r)
        /\ fen_call.l = fen_call.r => fen_call.ret = 0

\* sum has returned, a sum that is not 0, for a range of several indices,
\* after two adds at one index in the range, one of them negative, and an
\* add at an index outside the range.
FenwickSumWitness ==
    /\ fen_call.op = "sum"
    /\ fen_call.r > fen_call.l + 1
    /\ fen_call.ret # 0
    /\ \E i, j, k \in 1..Len(fen_log) :
          /\ i # j
          /\ fen_log[i][1] = fen_log[j][1]
          /\ fen_log[i][1] >= fen_call.l /\ fen_log[i][1] < fen_call.r
          /\ fen_log[i][2] < 0
          /\ fen_log[j][2] > 0
          /\ fen_log[k][1] >= fen_call.r
          /\ fen_log[k][2] # 0

====
